---------------------------- MODULE Spec2Model ----------------------------
(***************************************************************************)
(* MinecraftAPI (src/src/minecraft-api.ts): the client of the MCSManager   *)
(* HTTP API.  Every invocation of a public operation is a process that     *)
(* suspends at its awaits (the fetch, the reading of the response body,    *)
(* the fixed delay of getPlayers); the remote API and the game server's    *)
(* console are the environment.  Texts are TLA+ strings, so the player     *)
(* list is parsed character by character, as the regular expression does.  *)
(***************************************************************************)
EXTENDS Naturals, Sequences, FiniteSets, TLC

\* ------------------------------------------------------------------ bounds
NumCalls == 2        \* invocations of public operations in one behaviour
MaxPieces == 3       \* comma-separated pieces of a generated name list

\* ------------------------------------------------------- program constants
TimeoutMs == 30000   \* makeRequest: setTimeout(() => controller.abort(), 30000)
DelayMs == 1000      \* getPlayers: setTimeout(resolve, 1000)
OutputSize == 500    \* getPlayers: this.getOutput(500), and getOutput's default
MaxPlayers == 20     \* the capacity in the reply the pattern was written for

Calls == 1..NumCalls

\* ------------------------------------------------------------- JS values
\* A JavaScript value as far as the code looks at it: its type and, for a
\* string, its text (for a number or a boolean, its literal).
JS(t, v) == [t |-> t, v |-> v]
Undefined == JS("undefined", "")
Null == JS("null", "")
Str(s) == JS("string", s)
Num(s) == JS("number", s)

\* ToBoolean, as `!x` and `x || y` apply it.
Truthy(x) ==
  CASE x.t \in {"undefined", "null"} -> FALSE
    [] x.t = "string" -> x.v # ""
    [] x.t = "number" -> x.v # "0"
    [] x.t = "boolean" -> x.v = "true"
    [] OTHER -> TRUE

\* x !== '<s>' is FALSE only for the string s itself.
StrictEqStr(x, s) == x.t = "string" /\ x.v = s

\* A parsed JSON body: its own type (and text), and what `.status` and
\* `.data` evaluate to on it (undefined on anything but an object that
\* has the field; never evaluated on null).
Body(t, v, st, d) == [t |-> t, v |-> v, status |-> st, data |-> d]
ObjBody(st, d) == Body("object", "", st, d)
NullBody == Body("null", "", Undefined, Undefined)
ScalarBody == Body("number", "7", Undefined, Undefined)

\* The outcome of makeRequest: it throws, or it returns the parsed body.
Threw == [threw |-> TRUE, resp |-> NullBody]
Returned(b) == [threw |-> FALSE, resp |-> b]

\* --------------------------------------------------------------- strings
Char(s, i) == SubSeq(s, i, i)

IsDigit(c) == c \in {"0", "1", "2", "3", "4", "5", "6", "7", "8", "9"}

\* `.` of a regular expression without the s flag: anything but a line
\* terminator.
IsDot(c) == c \notin {"\r", "\n"}

\* What String.prototype.trim removes (the white space the model's texts
\* can hold).
IsWhiteSpace(c) == c \in {" ", "\t", "\r", "\n"}

\* text holds lit at position p.
LiteralAt(text, p, lit) ==
  /\ p + Len(lit) - 1 <= Len(text)
  /\ SubSeq(text, p, p + Len(lit) - 1) = lit

\* The first position from p on whose character is not a digit (greedy \d+
\* stops there): Len(text) + 1 when the digits run to the end.
RECURSIVE DigitsEnd(_, _)
DigitsEnd(text, p) ==
  IF p <= Len(text) /\ IsDigit(Char(text, p)) THEN DigitsEnd(text, p + 1) ELSE p

\* The first position from p on whose character `.` does not match.
RECURSIVE DotEnd(_, _)
DotEnd(text, p) ==
  IF p <= Len(text) /\ IsDot(Char(text, p)) THEN DotEnd(text, p + 1) ELSE p

DigitValue(c) ==
  CASE c = "0" -> 0 [] c = "1" -> 1 [] c = "2" -> 2 [] c = "3" -> 3
    [] c = "4" -> 4 [] c = "5" -> 5 [] c = "6" -> 6 [] c = "7" -> 7
    [] c = "8" -> 8 [] c = "9" -> 9

\* parseInt of a string of decimal digits.
RECURSIVE ParseInt(_)
ParseInt(s) ==
  IF s = "" THEN 0
  ELSE 10 * ParseInt(SubSeq(s, 1, Len(s) - 1)) + DigitValue(Char(s, Len(s)))

RECURSIVE TrimStart(_)
TrimStart(s) ==
  IF s # "" /\ IsWhiteSpace(Char(s, 1)) THEN TrimStart(SubSeq(s, 2, Len(s))) ELSE s

RECURSIVE TrimEnd(_)
TrimEnd(s) ==
  IF s # "" /\ IsWhiteSpace(Char(s, Len(s)))
  THEN TrimEnd(SubSeq(s, 1, Len(s) - 1))
  ELSE s

\* String.prototype.trim
Trim(s) == TrimEnd(TrimStart(s))

\* s.split(','): the pieces between the commas, empty ones included; one
\* piece (s itself) when s holds no comma.
RECURSIVE SplitFrom(_, _, _)
SplitFrom(s, start, p) ==
  IF p > Len(s) THEN <<SubSeq(s, start, Len(s))>>
  ELSE IF Char(s, p) = ","
       THEN <<SubSeq(s, start, p - 1)>> \o SplitFrom(s, p + 1, p + 1)
       ELSE SplitFrom(s, start, p + 1)

SplitCommas(s) == SplitFrom(s, 1, 1)

\* pieces.map(p => p.trim())
TrimEach(pieces) == [k \in 1..Len(pieces) |-> Trim(pieces[k])]

NonEmpty(s) == s # ""

Min(S) == CHOOSE x \in S : \A y \in S : x <= y
Max(S) == CHOOSE x \in S : \A y \in S : x >= y

\* ------------------------------------------------- the player-list pattern
\* /There are (\d+) of a max of (\d+) players online: (.+)\r\n/
\* tried at position s of text.  Each quantifier is greedy, and none can
\* give a character back: what follows \d+ starts with a space, what
\* follows .+ is a carriage return, which `.` does not match.
NoMatch == [matched |-> FALSE, g1 |-> "", g2 |-> "", g3 |-> ""]

MatchAt(text, s) ==
  LET p1 == s + Len("There are ")
      e1 == DigitsEnd(text, p1)
      p2 == e1 + Len(" of a max of ")
      e2 == DigitsEnd(text, p2)
      p3 == e2 + Len(" players online: ")
      e3 == DotEnd(text, p3)
  IN IF /\ LiteralAt(text, s, "There are ")
        /\ e1 > p1
        /\ LiteralAt(text, e1, " of a max of ")
        /\ e2 > p2
        /\ LiteralAt(text, e2, " players online: ")
        /\ e3 > p3
        /\ LiteralAt(text, e3, "\r\n")
     THEN [matched |-> TRUE,
           g1 |-> SubSeq(text, p1, e1 - 1),
           g2 |-> SubSeq(text, p2, e2 - 1),
           g3 |-> SubSeq(text, p3, e3 - 1)]
     ELSE NoMatch

\* The positions of text where the pattern matches.
MatchStarts(text) == {s \in 1..Len(text) : MatchAt(text, s).matched}

\* A plausible slip: the last occurrence, not the first.
MatchLast(text) ==
  IF MatchStarts(text) = {} THEN NoMatch ELSE MatchAt(text, Max(MatchStarts(text)))

\* output.match(pattern), the pattern having no g flag: the leftmost match.
Match(text) ==
  IF MatchStarts(text) = {} THEN NoMatch ELSE MatchAt(text, Min(MatchStarts(text)))

\* A plausible slip: the pieces are not trimmed.
SplitNamesUntrimmed(playersStr) == SelectSeq(SplitCommas(playersStr), NonEmpty)

\* playersStr.split(',').map(p => p.trim()).filter(p => p)
SplitNames(playersStr) == SelectSeq(TrimEach(SplitCommas(playersStr)), NonEmpty)

\* What a block of getPlayers comes to: a list it returns, or a throw.
Players(list) == [threw |-> FALSE, players |-> list]
PlayersThrew == [threw |-> TRUE, players |-> <<>>]

\* getPlayers from `const output = await this.getOutput(500)` on, inside
\* its try block.  output is whatever getOutput returned: calling .match
\* on anything but a string is a TypeError.
ParseOutput(output) ==
  IF ~Truthy(output) THEN Players(<<>>)
  ELSE IF output.t # "string" THEN PlayersThrew
  ELSE LET match == Match(output.v)
       IN IF match.matched
          THEN LET playerCount == ParseInt(match.g1)
                   playersStr == Trim(match.g3)
               IN IF playerCount = 0
                  THEN Players(<<>>)
                  ELSE Players(SplitNames(playersStr))
          ELSE Players(<<>>)

\* getPlayers' catch: whatever its try block throws becomes [].
GetPlayersCatch(block) == IF block.threw THEN Players(<<>>) ELSE block

\* ---------------------------------------------------- the other operations
\* executeServerCommand after its request: false when makeRequest threw,
\* when the body is falsy, or when its status is not the string '200'.
ExecSucceeded(outcome) ==
  IF outcome.threw THEN FALSE
  ELSE IF ~Truthy(outcome.resp) \/ ~StrictEqStr(outcome.resp.status, "200")
       THEN FALSE
       ELSE TRUE

\* getOutput after its request: '' on a throw or a bad envelope, else
\* `resp.data || ''`, which is resp.data itself whenever that is truthy.
OutputOf(outcome) ==
  IF outcome.threw THEN Str("")
  ELSE IF ~Truthy(outcome.resp) \/ ~StrictEqStr(outcome.resp.status, "200")
       THEN Str("")
       ELSE IF Truthy(outcome.resp.data) THEN outcome.resp.data ELSE Str("")

\* A plausible slip: the weather is passed on unchecked.
ValidWeatherAny(weather) == TRUE

\* ['clear', 'rain', 'thunder'].includes(weather)
ValidWeather(weather) == weather \in {"clear", "rain", "thunder"}

\* `/weather ${weather}`
WeatherCommand(weather) == "/weather " \o weather

\* A ServerStatus record.
Status(n, names, st) == [online_players |-> n, player_names |-> names, status |-> st]

\* A plausible slip: the count keeps the value it was initialised with.
ServerStatusCountUnset(block) ==
  IF block.threw THEN Status(0, <<>>, "error")
  ELSE Status(0, block.players, "online")

\* getServerStatus around `await this.getPlayers()`: the record built from
\* the list, or the error record when getPlayers throws.
ServerStatusOf(block) ==
  IF block.threw THEN Status(0, <<>>, "error")
  ELSE Status(Len(block.players), block.players, "online")

\* --------------------------------------------------------------- requests
\* What buildUrl puts in the URL beside the three fixed credentials.
CommandRequest(command) == [endpoint |-> "command", command |-> command, size |-> 0]
OutputRequest(size) == [endpoint |-> "outputlog", command |-> "", size |-> size]

\* What an invocation returned: which fields count depends on the operation.
NoRet ==
  [threw |-> FALSE, bool |-> FALSE, out |-> Undefined, list |-> <<>>,
   st |-> Status(0, <<>>, "none")]
RetBool(b) == [NoRet EXCEPT !.bool = b]
RetOut(v) == [NoRet EXCEPT !.out = v]
RetList(block) == [NoRet EXCEPT !.threw = block.threw, !.list = block.players]
RetStatus(s) == [NoRet EXCEPT !.st = s]

\* ---------------------------------------------------------- the environment
\* The players the game server knows, in the order its list prints them.
NameOrder == <<"al", "bo">>
Names == {NameOrder[k] : k \in 1..Len(NameOrder)}
InOrder(S) == SelectSeq(NameOrder, LAMBDA n : n \in S)

\* The console commands a caller of executeServerCommand sends.
Commands == {"/list", "/say hi"}
\* The weathers a caller of setWeather sends.
Weathers == {"clear", "rain", "thunder", "storm"}

RECURSIVE NatToStr(_)
NatToStr(n) ==
  IF n < 10 THEN Char("0123456789", n + 1)
  ELSE NatToStr(n \div 10) \o Char("0123456789", (n % 10) + 1)

RECURSIVE Join(_, _)
Join(seq, sep) ==
  IF seq = <<>> THEN ""
  ELSE IF Len(seq) = 1 THEN seq[1]
  ELSE seq[1] \o sep \o Join(Tail(seq), sep)

\* The line the game server prints for /list.
ListReply(names) ==
  "There are " \o NatToStr(Len(names)) \o " of a max of " \o NatToStr(MaxPlayers)
    \o " players online: " \o Join(names, ", ") \o "\r\n"

RECURSIVE Concat(_)
Concat(lines) == IF lines = <<>> THEN "" ELSE lines[1] \o Concat(Tail(lines))

\* The last `size` characters of the console.
TailOf(text, size) ==
  IF Len(text) <= size THEN text ELSE SubSeq(text, Len(text) - size + 1, Len(text))

VARIABLES
  op,        \* op[i]: the operation invocation i runs, and its argument
  pc,        \* pc[i]: where invocation i is suspended
  timer,     \* timer[i]: the setTimeout invocation i has pending (0: none)
  sent,      \* sent[i]: the requests invocation i has passed to fetch
  success,   \* success[i]: what executeServerCommand returned to i
  ret,       \* ret[i]: what invocation i returned
  players,   \* remote: the players online
  pending,   \* remote: the commands accepted, not yet run by the game server
  console,   \* remote: the console log, one list of names per /list reply
  answers,   \* history: how each request of invocation i ended
  seen,      \* history: the console replies served to i's output-log request
  delayed,   \* history: i's fixed delay has elapsed
  stable,    \* history: no player came or went since getServerStatus i began
  after,     \* history: the invocations that had returned when i was invoked
  sample,    \* the console text given to the parser (ParseSpec)
  parsed     \* what the parser made of it (ParseSpec)

progVars == <<op, pc, timer, sent, success, ret>>
remoteVars == <<players, pending, console>>
histVars == <<answers, seen, delayed, stable, after>>
parseVars == <<sample, parsed>>
vars == <<progVars, remoteVars, histVars, parseVars>>

\* The operations that run getPlayers.
ListsPlayers(i) == op[i].name \in {"getPlayers", "getServerStatus"}

ConsoleText == Concat([k \in 1..Len(console) |-> ListReply(console[k])])

\* ------------------------------------------------------ program fragments
\* The invocation returns r.
Return(i, r) ==
  /\ pc' = [pc EXCEPT ![i] = "done"]
  /\ timer' = [timer EXCEPT ![i] = 0]
  /\ ret' = [ret EXCEPT ![i] = r]
  /\ sent' = sent

\* makeRequest up to `await fetch(...)`: the timeout is armed, the request
\* is on its way.
Issue(i, request, at) ==
  /\ sent' = [sent EXCEPT ![i] = Append(@, request)]
  /\ timer' = [timer EXCEPT ![i] = TimeoutMs]
  /\ pc' = [pc EXCEPT ![i] = at]
  /\ ret' = ret

\* What getPlayers' caller gets from the block getPlayers ran.
ReturnPlayers(i, block) ==
  IF op[i].name = "getServerStatus"
  THEN Return(i, RetStatus(ServerStatusOf(GetPlayersCatch(block))))
  ELSE Return(i, RetList(GetPlayersCatch(block)))

\* A plausible slip: the output is fetched whatever /list returned.
AfterCommandUnchecked(i, outcome) ==
  /\ success' = [success EXCEPT ![i] = IF ExecSucceeded(outcome) THEN "true" ELSE "false"]
  /\ IF ListsPlayers(i)
     THEN /\ pc' = [pc EXCEPT ![i] = "delay"]
          /\ timer' = [timer EXCEPT ![i] = DelayMs]
          /\ UNCHANGED <<sent, ret>>
     ELSE Return(i, RetBool(ExecSucceeded(outcome)))

\* The command request of invocation i ended with `outcome`:
\* executeServerCommand returns, and so do setWeather and, when the command
\* failed, getPlayers; otherwise getPlayers starts its fixed delay.
AfterCommand(i, outcome) ==
  /\ success' = [success EXCEPT ![i] = IF ExecSucceeded(outcome) THEN "true" ELSE "false"]
  /\ IF ListsPlayers(i)
     THEN IF ~ExecSucceeded(outcome)
          THEN ReturnPlayers(i, Players(<<>>))
          ELSE /\ pc' = [pc EXCEPT ![i] = "delay"]
               /\ timer' = [timer EXCEPT ![i] = DelayMs]
               /\ UNCHANGED <<sent, ret>>
     ELSE Return(i, RetBool(ExecSucceeded(outcome)))

\* A plausible slip: an empty output is fetched once more.
AfterOutputRetrying(i, outcome) ==
  /\ success' = success
  /\ IF op[i].name = "getOutput"
     THEN Return(i, RetOut(OutputOf(outcome)))
     ELSE IF ~Truthy(OutputOf(outcome)) /\ Len(sent[i]) < 3
          THEN Issue(i, OutputRequest(OutputSize), "out_sent")
          ELSE ReturnPlayers(i, ParseOutput(OutputOf(outcome)))

\* The output-log request of invocation i ended with `outcome`: getOutput
\* returns, and getPlayers parses what getOutput returned.
AfterOutput(i, outcome) ==
  /\ success' = success
  /\ IF op[i].name = "getOutput"
     THEN Return(i, RetOut(OutputOf(outcome)))
     ELSE ReturnPlayers(i, ParseOutput(OutputOf(outcome)))

\* The request in flight ended with `outcome`.
AfterRequest(i, outcome) ==
  IF pc[i] \in {"cmd_sent", "cmd_body"}
  THEN AfterCommand(i, outcome)
  ELSE AfterOutput(i, outcome)

\* ------------------------------------------------------- history fragments
Answered(i, how) == answers' = [answers EXCEPT ![i] = Append(@, how)]

Invoked(i) ==
  /\ pc[i] = "idle"
  /\ IF i = 1 THEN TRUE ELSE pc[i - 1] # "idle"
  /\ after' = [after EXCEPT ![i] = {j \in Calls : pc[j] = "done"}]
  /\ UNCHANGED <<success, remoteVars, answers, seen, delayed, parseVars>>

\* ------------------------------------------------------------ invocations
ExecuteServerCommand(i, command) ==
  /\ Invoked(i)
  /\ stable' = stable
  /\ op' = [op EXCEPT ![i] = [name |-> "executeServerCommand", arg |-> command]]
  /\ Issue(i, CommandRequest(command), "cmd_sent")

GetOutput(i) ==
  /\ Invoked(i)
  /\ stable' = stable
  /\ op' = [op EXCEPT ![i] = [name |-> "getOutput", arg |-> ""]]
  /\ Issue(i, OutputRequest(OutputSize), "out_sent")

GetPlayers(i) ==
  /\ Invoked(i)
  /\ stable' = stable
  /\ op' = [op EXCEPT ![i] = [name |-> "getPlayers", arg |-> ""]]
  /\ Issue(i, CommandRequest("/list"), "cmd_sent")

GetServerStatus(i) ==
  /\ Invoked(i)
  /\ stable' = [stable EXCEPT ![i] = TRUE]
  /\ op' = [op EXCEPT ![i] = [name |-> "getServerStatus", arg |-> ""]]
  /\ Issue(i, CommandRequest("/list"), "cmd_sent")

SetWeather(i, weather) ==
  /\ Invoked(i)
  /\ stable' = stable
  /\ op' = [op EXCEPT ![i] = [name |-> "setWeather", arg |-> weather]]
  /\ IF ~ValidWeather(weather)
     THEN Return(i, RetBool(FALSE))
     ELSE Issue(i, CommandRequest(WeatherCommand(weather)), "cmd_sent")

\* ------------------------------------------------------- the fetch's ends
InFlight(i) == pc[i] \in {"cmd_sent", "out_sent"}
ReadingBody(i) == pc[i] \in {"cmd_body", "out_body"}
LastRequest(i) == sent[i][Len(sent[i])]

\* fetch rejects (no connection, a reset): makeRequest rethrows.  The
\* timeout stays pending in the program and later aborts a fetch that is
\* over, which does nothing; the model drops it here.
FetchRejects(i) ==
  /\ InFlight(i)
  /\ AfterRequest(i, Threw)
  /\ Answered(i, "failed")
  /\ UNCHANGED <<op, remoteVars, seen, delayed, stable, after, parseVars>>

\* No response within the timeout: controller.abort() makes fetch reject
\* with an AbortError, and makeRequest throws 'Request timeout'.
TimerFires(i) ==
  /\ InFlight(i)
  /\ timer[i] = TimeoutMs
  /\ AfterRequest(i, Threw)
  /\ Answered(i, "timeout")
  /\ UNCHANGED <<op, remoteVars, seen, delayed, stable, after, parseVars>>

\* The response's status line and headers arrive, fetch resolves, and
\* clearTimeout runs: a status outside 2xx makes makeRequest throw,
\* otherwise it goes on to `await response.json()`.
FetchResponds(i, ok) ==
  /\ InFlight(i)
  /\ IF ok
     THEN /\ timer' = [timer EXCEPT ![i] = 0]
          /\ pc' = [pc EXCEPT ![i] = IF pc[i] = "cmd_sent" THEN "cmd_body" ELSE "out_body"]
          /\ UNCHANGED <<sent, success, ret, answers>>
     ELSE /\ AfterRequest(i, Threw)
          /\ Answered(i, "failed")
  /\ UNCHANGED <<op, remoteVars, seen, delayed, stable, after, parseVars>>

\* The body is not JSON, or the connection breaks under it:
\* response.json() rejects.
BodyNotJson(i) ==
  /\ ReadingBody(i)
  /\ AfterRequest(i, Threw)
  /\ Answered(i, "failed")
  /\ UNCHANGED <<op, remoteVars, seen, delayed, stable, after, parseVars>>

\* What the API can put in `status` and, for the output log, in `data`.
StatusChoices == {Undefined, Str("200"), Num("200"), Str("500")}
DataChoices(tail) ==
  {Undefined, Null, Str(""), Str(tail), Num("42"), JS("object", "")}
CommandBodies == {NullBody, ScalarBody} \cup {ObjBody(st, Undefined) : st \in StatusChoices}
OutputBodies(tail) ==
  {NullBody, ScalarBody}
    \cup {ObjBody(st, d) : st \in StatusChoices, d \in DataChoices(tail)}

\* The API's own success envelope.
IsOkEnvelope(b) == b.t = "object" /\ b.status = Str("200")

\* The replies of the console that lie whole inside its last `size`
\* characters.
RECURSIVE RepliesWithin(_, _)
RepliesWithin(lines, size) ==
  IF lines = <<>> THEN <<>>
  ELSE IF Len(Concat([k \in 1..Len(lines) |-> ListReply(lines[k])])) <= size
       THEN lines
       ELSE RepliesWithin(Tail(lines), size)

\* The body is JSON and response.json() resolves with it.  An API that
\* answers a command with its success envelope has passed the command on
\* to the game server (the model follows /list only: what the other
\* commands print is not a reply the pattern matches); the output log it
\* serves is the console's tail.
BodyArrives(i) ==
  /\ ReadingBody(i)
  /\ LET request == LastRequest(i)
         tail == TailOf(ConsoleText, request.size)
     IN IF request.endpoint = "command"
        THEN \E b \in CommandBodies :
               /\ pending' = IF IsOkEnvelope(b) /\ request.command = "/list"
                             THEN Append(pending, request.command)
                             ELSE pending
               /\ Answered(i, IF IsOkEnvelope(b) THEN "ok" ELSE "bad_envelope")
               /\ seen' = seen
               /\ AfterRequest(i, Returned(b))
        ELSE \E b \in OutputBodies(tail) :
               /\ pending' = pending
               /\ Answered(i, IF ~IsOkEnvelope(b) THEN "bad_envelope"
                              ELSE IF b.data = Str(tail) THEN "ok" ELSE "odd_data")
               /\ seen' = IF IsOkEnvelope(b) /\ b.data = Str(tail)
                          THEN [seen EXCEPT ![i] = RepliesWithin(console, request.size)]
                          ELSE seen
               /\ AfterRequest(i, Returned(b))
  /\ UNCHANGED <<op, players, console, delayed, stable, after, parseVars>>

\* getPlayers' fixed delay is over: it calls getOutput(500).
DelayElapses(i) ==
  /\ pc[i] = "delay"
  /\ timer[i] = DelayMs
  /\ Issue(i, OutputRequest(OutputSize), "out_sent")
  /\ delayed' = [delayed EXCEPT ![i] = TRUE]
  /\ UNCHANGED <<op, success, remoteVars, answers, seen, stable, after, parseVars>>

\* ---------------------------------------------------------- the remote side
\* The game server runs the next command: /list prints the players online.
ServerRuns ==
  /\ pending # <<>>
  /\ pending' = Tail(pending)
  /\ console' = IF Head(pending) = "/list" THEN Append(console, InOrder(players))
                ELSE console
  /\ UNCHANGED <<progVars, players, histVars, parseVars>>

\* Players join or leave.
PlayersChange(S) ==
  /\ S # players
  /\ players' = S
  /\ stable' = [i \in Calls |-> FALSE]
  /\ UNCHANGED <<progVars, pending, console, answers, seen, delayed, after, parseVars>>

\* ------------------------------------------------------------ the parser
\* A piece of a name list as a console could print it, and the name in it.
Piece(text, name) == [text |-> text, name |-> name]
Pieces ==
  {Piece("", ""), Piece(" ", ""), Piece("al", "al"), Piece("bo", "bo"),
   Piece(" al ", "al"), Piece("b o ", "b o")}
Count(text, value) == [text |-> text, value |-> value]
Counts == {Count("0", 0), Count("2", 2), Count("10", 10)}
Before == {"", "[INFO]: "}
LineEnds == {"\r\n", "\n"}
Behind == {"", "Done\r\n"}

RECURSIVE SeqsUpTo(_, _)
SeqsUpTo(S, n) ==
  IF n = 0 THEN {<<>>}
  ELSE LET shorter == SeqsUpTo(S, n - 1)
       IN shorter \cup {Append(q, e) : q \in {r \in shorter : Len(r) = n - 1}, e \in S}

Samples ==
  [before : Before, count : Counts, pieces : SeqsUpTo(Pieces, MaxPieces) \ {<<>>},
   end : LineEnds, behind : Behind]
NoSample ==
  [before |-> "", count |-> Count("0", 0), pieces |-> <<>>, end |-> "", behind |-> ""]

NameList(pieces) == Join([k \in 1..Len(pieces) |-> pieces[k].text], ",")
SampleText(sm) ==
  sm.before \o "There are " \o sm.count.text \o " of a max of " \o NatToStr(MaxPlayers)
    \o " players online: " \o NameList(sm.pieces) \o sm.end \o sm.behind

NotParsed == [done |-> FALSE, block |-> Players(<<>>)]

\* getPlayers on a console text: its own try block, with its catch.
Parse ==
  /\ ~parsed.done
  /\ sample # NoSample
  /\ parsed' = [done |-> TRUE,
                block |-> GetPlayersCatch(ParseOutput(Str(SampleText(sample))))]
  /\ UNCHANGED <<progVars, remoteVars, histVars, sample>>

\* --------------------------------------------------------- specifications
InitCalls ==
  /\ op = [i \in Calls |-> [name |-> "none", arg |-> ""]]
  /\ pc = [i \in Calls |-> "idle"]
  /\ timer = [i \in Calls |-> 0]
  /\ sent = [i \in Calls |-> <<>>]
  /\ success = [i \in Calls |-> "none"]
  /\ ret = [i \in Calls |-> NoRet]
  /\ pending = <<>>
  /\ console = <<>>
  /\ answers = [i \in Calls |-> <<>>]
  /\ seen = [i \in Calls |-> <<>>]
  /\ delayed = [i \in Calls |-> FALSE]
  /\ stable = [i \in Calls |-> FALSE]
  /\ after = [i \in Calls |-> {}]

Init ==
  /\ InitCalls
  /\ players \in SUBSET Names
  /\ sample = NoSample
  /\ parsed = NotParsed

Next ==
  \/ \E i \in Calls, command \in Commands : ExecuteServerCommand(i, command)
  \/ \E i \in Calls : GetOutput(i)
  \/ \E i \in Calls : GetPlayers(i)
  \/ \E i \in Calls : GetServerStatus(i)
  \/ \E i \in Calls, weather \in Weathers : SetWeather(i, weather)
  \/ \E i \in Calls : FetchRejects(i)
  \/ \E i \in Calls : TimerFires(i)
  \/ \E i \in Calls, ok \in BOOLEAN : FetchResponds(i, ok)
  \/ \E i \in Calls : BodyNotJson(i)
  \/ \E i \in Calls : BodyArrives(i)
  \/ \E i \in Calls : DelayElapses(i)
  \/ ServerRuns
  \/ \E S \in SUBSET Names : PlayersChange(S)

Spec == Init /\ [][Next]_vars

\* The timers of the runtime fire; the remote side owes nothing.
FairSpec ==
  /\ Spec
  /\ \A i \in Calls : WF_vars(TimerFires(i)) /\ WF_vars(DelayElapses(i))

ParseInit ==
  /\ InitCalls
  /\ players = {}
  /\ sample \in Samples
  /\ parsed = NotParsed

ParseSpec == ParseInit /\ [][Parse]_vars


\* ------------------------------------------------------------- properties
HasReturned(i) == pc[i] = "done"
Last(seq) == seq[Len(seq)]
OutputRequests(i) == SelectSeq(sent[i], LAMBDA r : r.endpoint = "outputlog")
CommandRequests(i) == SelectSeq(sent[i], LAMBDA r : r.endpoint = "command")
\* The list a getPlayers run inside invocation i handed back.
PlayersReturned(i) ==
  IF op[i].name = "getServerStatus" THEN ret[i].st.player_names ELSE ret[i].list
\* The last request of invocation i did not get the API's success envelope.
LastRequestFailed(i) ==
  answers[i] # <<>> /\ Last(answers[i]) \in {"failed", "timeout", "bad_envelope"}

\* C1: whatever the remote API does, executeServerCommand, getOutput,
\* getPlayers and getServerStatus do not raise; each returns a value of its
\* return type (a boolean, a string, a list, a ServerStatus record), and
\* on failure false, the empty string, the empty list, a ServerStatus record.
C1_NeverRaisesAndWellTyped ==
  \A i \in Calls :
    HasReturned(i) =>
      /\ ~ret[i].threw
      /\ op[i].name = "getOutput" =>
           /\ ret[i].out.t = "string"
           /\ LastRequestFailed(i) => ret[i].out = Str("")
      /\ op[i].name = "executeServerCommand" =>
           /\ ret[i].bool \in BOOLEAN
           /\ LastRequestFailed(i) => ret[i].bool = FALSE
      /\ (op[i].name = "getPlayers" /\ LastRequestFailed(i)) => ret[i].list = <<>>
      /\ op[i].name = "getServerStatus" =>
           ret[i].st.status \in {"online", "error"}

\* C2: when the /list command of a getPlayers run returns false, getPlayers
\* returns the empty list and that invocation never requests the output log.
C2_NoFetchAfterFailedList ==
  \A i \in Calls :
    (ListsPlayers(i) /\ success[i] = "false") =>
      /\ HasReturned(i)
      /\ PlayersReturned(i) = <<>>
      /\ OutputRequests(i) = <<>>

C2_Witness ==
  \E i \in Calls :
    /\ op[i].name = "getPlayers" /\ success[i] = "false" /\ HasReturned(i)
    /\ answers[i] = <<"bad_envelope">>

\* C3: when a request gets no response within the timeout,
\* executeServerCommand returns false, getPlayers returns the empty list and
\* getServerStatus returns a record whose status is "error"; none raises.
C3_TimeoutSurfaces ==
  \A i \in Calls :
    (HasReturned(i) /\ answers[i] # <<>> /\ Last(answers[i]) = "timeout") =>
      /\ ~ret[i].threw
      /\ op[i].name = "executeServerCommand" => ret[i].bool = FALSE
      /\ op[i].name = "getPlayers" => ret[i].list = <<>>
      /\ op[i].name = "getServerStatus" => ret[i].st.status = "error"

\* C4: in every record getServerStatus returns, status "online" comes with
\* online_players equal to the length of player_names, and status "error"
\* with online_players 0 and no player_names.
C4_StatusCountsNames ==
  \A i \in Calls :
    (op[i].name = "getServerStatus" /\ HasReturned(i)) =>
      /\ ret[i].st.status \in {"online", "error"}
      /\ ret[i].st.status = "online" =>
           ret[i].st.online_players = Len(ret[i].st.player_names)
      /\ ret[i].st.status = "error" =>
           ret[i].st.online_players = 0 /\ ret[i].st.player_names = <<>>

C4_Witness ==
  \E i \in Calls :
    /\ op[i].name = "getServerStatus" /\ HasReturned(i)
    /\ after[i] # {}
    /\ ret[i].st = Status(2, <<"al", "bo">>, "online")

\* C5: every invocation of a public operation eventually returns, also when
\* the remote API stops answering at any point of a request.
C5_EveryInvocationReturns ==
  \A i \in Calls : (pc[i] # "idle") ~> (pc[i] = "done")

\* C6: setWeather with a weather outside {clear, rain, thunder} returns
\* false and sends nothing; with one inside it sends exactly one command
\* request, "/weather " followed by the weather, and returns whether that
\* command succeeded.
C6_SetWeather ==
  \A i \in Calls :
    op[i].name = "setWeather" =>
      IF op[i].arg \notin {"clear", "rain", "thunder"}
      THEN HasReturned(i) /\ ret[i].bool = FALSE /\ sent[i] = <<>>
      ELSE /\ Len(sent[i]) = 1
           /\ sent[i][1].endpoint = "command"
           /\ op[i].arg = "clear" => sent[i][1].command = "/weather clear"
           /\ op[i].arg = "rain" => sent[i][1].command = "/weather rain"
           /\ op[i].arg = "thunder" => sent[i][1].command = "/weather thunder"
           /\ HasReturned(i) => ret[i].bool = (answers[i] = <<"ok">>)

C6_Witness ==
  \E i, j \in Calls :
    /\ op[i] = [name |-> "setWeather", arg |-> "thunder"]
    /\ HasReturned(i) /\ ret[i].bool
    /\ op[j] = [name |-> "setWeather", arg |-> "storm"]
    /\ HasReturned(j)

\* C7: getServerStatus invocations run one after another, the players
\* online and the API's answers staying the same, return equal records.
C7_StatusIdempotent ==
  \A i, j \in Calls :
    ( /\ op[i].name = "getServerStatus" /\ HasReturned(i)
      /\ op[j].name = "getServerStatus" /\ HasReturned(j)
      /\ i \in after[j]
      /\ stable[i]
      /\ answers[i] = answers[j] )
    => ret[i].st = ret[j].st

\* C8: when the output matches the pattern with a player count other than
\* 0, getPlayers returns the comma-separated pieces of the captured name
\* list, each trimmed, the empty ones dropped, in order, duplicates kept,
\* whatever the player count says.
NamesOf(pieces) == SelectSeq([k \in 1..Len(pieces) |-> pieces[k].name], NonEmpty)

C8_SplitOfCapture ==
  ( /\ parsed.done
    /\ sample.end = "\r\n"
    /\ NameList(sample.pieces) # ""
    /\ sample.count.value # 0 )
  => /\ ~parsed.block.threw
     /\ parsed.block.players = NamesOf(sample.pieces)

C8_Witness ==
  /\ parsed.done
  /\ sample.before # ""
  /\ sample.count.value = 10
  /\ sample.pieces = <<Piece(" al ", "al"), Piece("", ""), Piece("al", "al")>>
  /\ parsed.block.players = <<"al", "al">>

\* C9: a getPlayers run sends exactly one /list command request and at most
\* one output-log request, the latter only after the command succeeded and
\* the fixed delay elapsed, and repeats neither; so for each of several runs
\* that interleave.
C9_OneCommandOneFetch ==
  \A i \in Calls :
    ListsPlayers(i) =>
      /\ CommandRequests(i) = <<CommandRequest("/list")>>
      /\ sent[i][1] = CommandRequest("/list")
      /\ Len(OutputRequests(i)) <= 1
      /\ OutputRequests(i) # <<>> =>
           /\ answers[i] # <<>> /\ answers[i][1] = "ok"
           /\ success[i] = "true"
           /\ delayed[i]

C9_Witness ==
  /\ \A i \in Calls : op[i].name = "getPlayers"
  /\ pc[1] = "out_body"
  /\ \E j \in Calls : pc[j] = "out_sent"

\* C10: when the fetched output holds several lines that match the pattern,
\* getPlayers returns the names of the earliest of them.
RECURSIVE FirstListed(_)
FirstListed(replies) ==
  IF replies = <<>> THEN <<>>
  ELSE IF replies[1] # <<>> THEN replies[1]
  ELSE FirstListed(Tail(replies))

C10_EarliestReplyWins ==
  \A i \in Calls :
    (ListsPlayers(i) /\ HasReturned(i) /\ answers[i] = <<"ok", "ok">>) =>
      PlayersReturned(i) = FirstListed(seen[i])

C10_Witness ==
  \E i \in Calls :
    /\ op[i].name = "getPlayers" /\ HasReturned(i) /\ answers[i] = <<"ok", "ok">>
    /\ Len(seen[i]) = 2
    /\ seen[i][1] = <<"al">>
    /\ seen[i][2] = <<"al", "bo">>
    /\ ret[i].list = <<"al">>
=============================================================================
